---- MODULE Spec2Model ----
(***************************************************************************)
(* ParquetObjectWriter (parquet/src/arrow/async_writer/store.rs): the      *)
(* AsyncFileWriter adapter over object_store's BufWriter.                  *)
(*                                                                         *)
(* A slot is one BufWriter together with the ParquetObjectWriter that may  *)
(* wrap it.  The adapter's two operations are lazy futures: a call builds  *)
(* the future (borrowing the adapter mutably), a poll starts the inner     *)
(* put/shutdown, and the inner operation's completion makes the adapter's  *)
(* call return in the same poll.  The BufWriter and the object store are   *)
(* the environment; they are modelled through their contract.              *)
(***************************************************************************)
EXTENDS Integers, Sequences, FiniteSets, TLC

VARIABLES store, held, w, futs, calls, commits, fw

vars == <<store, held, w, futs, calls, commits, fw>>

(* ------------------------------ bounds -------------------------------- *)

\* Total number of write/complete calls made on the adapter.
MaxCalls == 3

\* Total number of write/complete calls made on the two adapters of a pair.
MaxPairCalls == 5

\* Total number of write/complete calls made on the two adapters built by
\* different routes.
MaxRouteCalls == 4

\* Rows of a payload the format writer is given.
MaxRows == 2

\* The adapters (and the buffered writers they wrap) of a state.
Slots == DOMAIN held

\* Destination paths (the two paths the tests use).
Paths == {"test", "fixed_size_array"}

\* Byte chunks a caller may pass to write.
Chunks == {<<1>>, <<2, 3>>}

\* The content of an object that is in the store before any adapter is built.
Preexisting == <<9>>

\* Failures the backend can answer an I/O request with.
BackendErrors == {"Connection", "Timeout"}

\* What the backend answers to one I/O request.
Outcomes == {"ok"} \cup BackendErrors

(* --------------------------- result values ---------------------------- *)

Ok == [kind |-> "Ok"]

Err(e) == [kind |-> "Err", err |-> e]

Panic == [kind |-> "Panic"]

Dropped == [kind |-> "Dropped"]

(* ----------------------- the buffered writer -------------------------- *)

\* BufWriter's default capacity (10 MiB in object_store), scaled down.
DefaultCapacity == 3

\* Capacities a caller may configure a BufWriter with before wrapping it.
Capacities == {1, DefaultCapacity}

\* No BufWriter has been built in the slot yet.
NoWriter == [path |-> "", capacity |-> 0, state |-> "None", buf |-> <<>>]

\* BufWriter::new(store, path) / BufWriter::with_capacity(store, path, cap):
\* an empty buffer bound to the path; nothing is sent to the store.
BufWriterNew(p, cap) == [path |-> p, capacity |-> cap, state |-> "Buffer", buf |-> <<>>]

\* BufWriter::put: below the capacity the chunk is buffered without I/O;
\* otherwise the writer goes over to a multipart upload, which the backend
\* may refuse.  A writer that was shut down accepts nothing.
BufPut(bw, bs, out) ==
  IF bw.state = "Closed"
    THEN [w |-> bw, res |-> Panic, commit |-> FALSE]
  ELSE IF bw.state = "Buffer" /\ Len(bw.buf) + Len(bs) < bw.capacity
    THEN [w |-> [bw EXCEPT !.buf = @ \o bs], res |-> Ok, commit |-> FALSE]
  ELSE IF out = "ok"
    THEN [w |-> [bw EXCEPT !.buf = @ \o bs, !.state = "Write"], res |-> Ok, commit |-> FALSE]
  ELSE [w |-> bw, res |-> Err(out), commit |-> FALSE]

\* BufWriter::shutdown: flushes what was accepted and commits the object
\* at the writer's path; terminal whether or not the commit succeeds.
BufShutdown(bw, out) ==
  IF bw.state = "Closed"
    THEN [w |-> bw, res |-> Panic, commit |-> FALSE]
  ELSE IF out = "ok"
    THEN [w |-> [bw EXCEPT !.state = "Closed"], res |-> Ok, commit |-> TRUE]
  ELSE [w |-> [bw EXCEPT !.state = "Closed"], res |-> Err(out), commit |-> FALSE]

\* ObjectStore: the object at path p becomes data.
StorePut(st, p, data) == [q \in DOMAIN st \cup {p} |-> IF q = p THEN data ELSE st[q]]

(* ---------------------------- the adapter ----------------------------- *)

\* Mutant: the error is flattened into a message (ParquetError::General).
External_general(err) == [kind |-> "Err", err |-> [variant |-> "General", cause |-> "message"]]

\* ParquetError::External(Box::new(err))
External(err) == [kind |-> "Err", err |-> [variant |-> "External", cause |-> err]]

\* Mutant: the chunk is forwarded one byte per put.
write_awaits_split(bs) == [k \in 1..Len(bs) |-> [op |-> "put", bs |-> <<bs[k]>>]]

\* Mutant: the chunk is put twice.
write_awaits_twice(bs) == <<[op |-> "put", bs |-> bs], [op |-> "put", bs |-> bs]>>

\* Mutant: the last byte of the chunk is not forwarded.
write_awaits_truncated(bs) == <<[op |-> "put", bs |-> SubSeq(bs, 1, Len(bs) - 1)]>>

\* write's async block: one await, self.w.put(bs)
write_awaits(bs) == <<[op |-> "put", bs |-> bs]>>

\* Mutant: complete awaits an empty put before the shutdown.
complete_awaits_two == <<[op |-> "put", bs |-> <<>>], [op |-> "shutdown", bs |-> <<>>]>>

\* Mutant: complete returns without shutting the inner writer down.
complete_awaits_none == <<>>

\* complete's async block: one await, self.w.shutdown()
complete_awaits == <<[op |-> "shutdown", bs |-> <<>>]>>

\* Mutant: the put's error is discarded and the write reports success.
write_result_swallow(r) == IF r.kind = "Err" THEN Ok ELSE r

\* .map_err(|err| ParquetError::External(Box::new(err))) in write
write_result(r) == IF r.kind = "Err" THEN External(r.err) ELSE r

\* Mutant: the shutdown's error is discarded and the complete reports success.
complete_result_swallow(r) == IF r.kind = "Err" THEN Ok ELSE r

\* .map_err(|err| ParquetError::External(Box::new(err))) in complete
complete_result(r) == IF r.kind = "Err" THEN External(r.err) ELSE r

\* Mutant: the operations take &self, so a live future borrows nothing.
Borrowed_never(s) == FALSE

\* &mut self with BoxFuture<'_, _>: a live future borrows the adapter.
Borrowed(s) == futs[s] /= <<>>

RECURSIVE SumCalls(_)
SumCalls(S) ==
  IF S = {} THEN 0
  ELSE LET s == CHOOSE x \in S : TRUE
       IN  Len(calls[s]) + Len(futs[s]) + SumCalls(S \ {s})

NumCalls == SumCalls(Slots)

\* The calls the caller may still make.
Budget == IF Cardinality(Slots) = 1 THEN MaxCalls ELSE MaxPairCalls

RemoveAt(q, i) == SubSeq(q, 1, i - 1) \o SubSeq(q, i + 1, Len(q))

(* ------------------- the format writer and reader -------------------- *)

\* The file's magic number, first and last byte of an encoded file.
Magic == 80

\* Rows the format writer buffers before it flushes a row group.
RowGroupSize == 1

\* The schemas of the two tests and the byte each is encoded as.
Schemas == {"col: Int64", "array: FixedSizeList(Float32, 2)"}

SchemaCode(sc) == IF sc = "col: Int64" THEN 10 ELSE 11

\* Values of a row.
Values == {1, 2}

\* The payloads: a schema and up to MaxRows rows.
Payloads ==
  {[schema |-> sc, rows |-> rs] :
     sc \in Schemas, rs \in UNION {[1..n -> Values] : n \in 0..MaxRows}}

\* The footer: the schema and the number of rows, then the footer's
\* length and the magic number.
Footer(pl) == <<SchemaCode(pl.schema), Len(pl.rows), 2, Magic>>

\* The encoded file.
Encode(pl) == <<Magic>> \o pl.rows \o Footer(pl)

\* The chunks the format writer hands to its file writer: one for every
\* full row group but the last, then one with the rest and the footer.
RECURSIVE RowChunks(_, _)
RowChunks(bytes, pl) ==
  IF Len(bytes) - 1 > RowGroupSize
    THEN <<SubSeq(bytes, 1, RowGroupSize + 1)>>
           \o RowChunks(<<Magic>> \o SubSeq(bytes, RowGroupSize + 2, Len(bytes)), pl)
    ELSE <<bytes \o Footer(pl)>>

\* The first chunk keeps the magic number; later ones carry rows only.
EncodeChunks(pl) ==
  LET cs == RowChunks(<<Magic>> \o pl.rows, pl)
  IN  [k \in 1..Len(cs) |-> IF k = 1 THEN cs[k] ELSE Tail(cs[k])]

\* What the reader makes of a file that is not a well-formed encoding.
DecodeError == [schema |-> "error", rows |-> <<>>]

\* The reader: checks both magic numbers and the footer, then takes the
\* schema and the rows the footer announces.
Decode(bytes) ==
  LET n == Len(bytes)
  IN  IF /\ n >= 5
         /\ bytes[1] = Magic
         /\ bytes[n] = Magic
         /\ bytes[n - 1] = 2
         /\ bytes[n - 2] = n - 5
         /\ bytes[n - 3] \in {SchemaCode(sc) : sc \in Schemas}
        THEN [schema |-> CHOOSE sc \in Schemas : SchemaCode(sc) = bytes[n - 3],
              rows |-> SubSeq(bytes, 2, n - 4)]
        ELSE DecodeError

\* No format writer drives the adapter.
NoFw == [payload |-> DecodeError, todo |-> <<>>]

\* The state before any adapter is built, with adapters S to come.
Start(S) ==
  /\ held = [s \in S |-> "none"]
  /\ w = [s \in S |-> NoWriter]
  /\ futs = [s \in S |-> <<>>]
  /\ calls = [s \in S |-> <<>>]
  /\ commits = [s \in S |-> <<>>]

\* One adapter; the store is empty or holds one object already.
Init ==
  /\ Start({1})
  /\ store \in {[q \in {} |-> <<>>]} \cup {[q \in {p} |-> Preexisting] : p \in Paths}
  /\ fw = NoFw

\* Two adapters on one empty store.
InitPair ==
  /\ Start({1, 2})
  /\ store = [q \in {} |-> <<>>]
  /\ fw = NoFw

\* One adapter on an empty store, and a format writer with a payload to write.
InitRoundTrip ==
  /\ Start({1})
  /\ store = [q \in {} |-> <<>>]
  /\ fw \in {[payload |-> pl, todo |-> EncodeChunks(pl)] : pl \in Payloads}

\* Mutant: construction creates an empty object at the path.
new_touch(s, p) ==
  /\ held[s] = "none"
  /\ w' = [w EXCEPT ![s] = BufWriterNew(p, DefaultCapacity)]
  /\ held' = [held EXCEPT ![s] = "adapter"]
  /\ store' = StorePut(store, p, <<>>)
  /\ UNCHANGED <<futs, calls, commits>>

\* Mutant: the writer starts from the object already at the path (append
\* instead of create).
new_append(s, p) ==
  /\ held[s] = "none"
  /\ w' = [w EXCEPT ![s] =
       [BufWriterNew(p, DefaultCapacity) EXCEPT
          !.buf = IF p \in DOMAIN store THEN store[p] ELSE <<>>]]
  /\ held' = [held EXCEPT ![s] = "adapter"]
  /\ UNCHANGED <<store, futs, calls, commits>>

\* Mutant: new builds its writer with a capacity of its own instead of the
\* default one.
new_small(s, p) ==
  /\ held[s] = "none"
  /\ w' = [w EXCEPT ![s] = BufWriterNew(p, 1)]
  /\ held' = [held EXCEPT ![s] = "adapter"]
  /\ UNCHANGED <<store, futs, calls, commits>>

\* ParquetObjectWriter::new(store, path)
new(s, p) ==
  /\ held[s] = "none"
  /\ w' = [w EXCEPT ![s] = BufWriterNew(p, DefaultCapacity)]
  /\ held' = [held EXCEPT ![s] = "adapter"]
  /\ UNCHANGED <<store, futs, calls, commits>>

\* The caller builds and configures a BufWriter of its own.
BuildBufWriter(s, p, cap) ==
  /\ held[s] = "none"
  /\ w' = [w EXCEPT ![s] = BufWriterNew(p, cap)]
  /\ held' = [held EXCEPT ![s] = "loose"]
  /\ UNCHANGED <<store, futs, calls, commits>>

\* ParquetObjectWriter::from_buf_writer(w)
from_buf_writer(s) ==
  /\ held[s] = "loose"
  /\ held' = [held EXCEPT ![s] = "adapter"]
  /\ UNCHANGED <<store, w, futs, calls, commits>>

\* Mutant: the conversion builds a new writer for the path "test" instead
\* of wrapping the one it is given.
from_rebuilt(s) ==
  /\ held[s] = "loose"
  /\ held' = [held EXCEPT ![s] = "adapter"]
  /\ w' = [w EXCEPT ![s] = BufWriterNew("test", w[s].capacity)]
  /\ UNCHANGED <<store, futs, calls, commits>>

\* impl From<BufWriter> for ParquetObjectWriter
from(s) ==
  /\ held[s] = "loose"
  /\ held' = [held EXCEPT ![s] = "adapter"]
  /\ UNCHANGED <<store, w, futs, calls, commits>>

\* Mutant: unwrapping flushes first: the inner writer is shut down and its
\* buffer committed.
into_inner_flush(s) ==
  /\ held[s] = "adapter"
  /\ ~Borrowed(s)
  /\ held' = [held EXCEPT ![s] = "loose"]
  /\ w' = [w EXCEPT ![s].state = "Closed"]
  /\ store' = StorePut(store, w[s].path, w[s].buf)
  /\ commits' = [commits EXCEPT ![s] = Append(@, [path |-> w[s].path, data |-> w[s].buf])]
  /\ UNCHANGED <<futs, calls>>

\* Mutant: unwrapping hands back a fresh writer for the same path.
into_inner_reset(s) ==
  /\ held[s] = "adapter"
  /\ ~Borrowed(s)
  /\ held' = [held EXCEPT ![s] = "loose"]
  /\ w' = [w EXCEPT ![s] = BufWriterNew(w[s].path, w[s].capacity)]
  /\ UNCHANGED <<store, futs, calls, commits>>

\* ParquetObjectWriter::into_inner(self)
into_inner(s) ==
  /\ held[s] = "adapter"
  /\ ~Borrowed(s)
  /\ held' = [held EXCEPT ![s] = "loose"]
  /\ UNCHANGED <<store, w, futs, calls, commits>>

\* The adapter goes out of scope: the struct has no Drop impl, its
\* BufWriter is dropped as it is.
drop_adapter(s) ==
  /\ held[s] = "adapter"
  /\ ~Borrowed(s)
  /\ held' = [held EXCEPT ![s] = "dropped"]
  /\ UNCHANGED <<store, w, futs, calls, commits>>

\* Mutant: the adapter keeps a closed flag and rejects a write after a
\* complete has returned, without calling put.
write_guarded(s, bs) ==
  /\ held[s] = "adapter"
  /\ ~Borrowed(s)
  /\ NumCalls < Budget
  /\ IF \E j \in 1..Len(calls[s]) :
          calls[s][j].op = "complete" /\ calls[s][j].res.kind /= "Dropped"
       THEN /\ calls' = [calls EXCEPT ![s] = Append(@,
                 [op |-> "write", bs |-> bs, res |-> External("Connection"),
                  inner |-> <<>>])]
            /\ UNCHANGED futs
       ELSE /\ futs' = [futs EXCEPT ![s] = Append(@,
                 [op |-> "write", bs |-> bs, pc |-> "created",
                  todo |-> write_awaits(bs), done |-> <<>>])]
            /\ UNCHANGED calls
  /\ UNCHANGED <<store, held, w, commits>>

\* ParquetObjectWriter::write(&mut self, bs): builds the future.
write(s, bs) ==
  /\ held[s] = "adapter"
  /\ ~Borrowed(s)
  /\ NumCalls < Budget
  /\ futs' = [futs EXCEPT ![s] = Append(@,
        [op |-> "write", bs |-> bs, pc |-> "created",
         todo |-> write_awaits(bs), done |-> <<>>])]
  /\ UNCHANGED <<store, held, w, calls, commits>>

\* Mutant: the adapter remembers a failed write and fails complete itself,
\* without calling shutdown.
complete_poisoned(s) ==
  /\ held[s] = "adapter"
  /\ ~Borrowed(s)
  /\ NumCalls < Budget
  /\ IF \E j \in 1..Len(calls[s]) : calls[s][j].op = "write" /\ calls[s][j].res.kind = "Err"
       THEN /\ calls' = [calls EXCEPT ![s] = Append(@,
                 [op |-> "complete", bs |-> <<>>, res |-> External("Connection"),
                  inner |-> <<>>])]
            /\ UNCHANGED futs
       ELSE /\ futs' = [futs EXCEPT ![s] = Append(@,
                 [op |-> "complete", bs |-> <<>>, pc |-> "created",
                  todo |-> complete_awaits, done |-> <<>>])]
            /\ UNCHANGED calls
  /\ UNCHANGED <<store, held, w, commits>>

\* ParquetObjectWriter::complete(&mut self): builds the future.
complete(s) ==
  /\ held[s] = "adapter"
  /\ ~Borrowed(s)
  /\ NumCalls < Budget
  /\ futs' = [futs EXCEPT ![s] = Append(@,
        [op |-> "complete", bs |-> <<>>, pc |-> "created",
         todo |-> complete_awaits, done |-> <<>>])]
  /\ UNCHANGED <<store, held, w, calls, commits>>

\* The result the adapter's call returns for the inner result r.
Returned(f, r) == IF f.op = "write" THEN write_result(r) ELSE complete_result(r)

\* The call's entry in the log of finished calls.
CallEntry(f, res, done) == [op |-> f.op, bs |-> f.bs, res |-> res, inner |-> done]

\* First poll of a future: the async block runs up to its await.
Poll(s, i) ==
  /\ i \in 1..Len(futs[s])
  /\ futs[s][i].pc = "created"
  /\ IF futs[s][i].todo = <<>>
       THEN /\ futs' = [futs EXCEPT ![s] = RemoveAt(@, i)]
            /\ calls' = [calls EXCEPT ![s] =
                 Append(@, CallEntry(futs[s][i], Returned(futs[s][i], Ok), <<>>))]
       ELSE /\ futs' = [futs EXCEPT ![s][i].pc = "awaiting"]
            /\ UNCHANGED calls
  /\ UNCHANGED <<store, held, w, commits>>

\* The awaited put/shutdown finishes with the backend's answer `out`; the
\* adapter maps the result and returns in the same poll.
InnerReady(s, i, out) ==
  /\ i \in 1..Len(futs[s])
  /\ futs[s][i].pc = "awaiting"
  /\ LET f == futs[s][i]
         c == Head(f.todo)
         r == IF c.op = "put" THEN BufPut(w[s], c.bs, out) ELSE BufShutdown(w[s], out)
         done == Append(f.done, [op |-> c.op, bs |-> c.bs, res |-> r.res])
     IN  /\ w' = [w EXCEPT ![s] = r.w]
         /\ IF r.commit
              THEN /\ store' = StorePut(store, w[s].path, w[s].buf)
                   /\ commits' = [commits EXCEPT ![s] =
                        Append(@, [path |-> w[s].path, data |-> w[s].buf])]
              ELSE UNCHANGED <<store, commits>>
         /\ IF r.res.kind /= "Ok" \/ Len(f.todo) = 1
              THEN /\ futs' = [futs EXCEPT ![s] = RemoveAt(@, i)]
                   /\ calls' = [calls EXCEPT ![s] =
                        Append(@, CallEntry(f, Returned(f, r.res), done))]
              ELSE /\ futs' = [futs EXCEPT ![s][i].todo = Tail(@), ![s][i].done = done]
                   /\ UNCHANGED calls
  /\ UNCHANGED held

\* Mutant: dropping the future aborts the upload and closes the inner writer.
DropFuture_abort(s, i) ==
  /\ i \in 1..Len(futs[s])
  /\ futs' = [futs EXCEPT ![s] = RemoveAt(@, i)]
  /\ calls' = [calls EXCEPT ![s] =
       Append(@, CallEntry(futs[s][i], Dropped, futs[s][i].done))]
  /\ w' = [w EXCEPT ![s].state = "Closed"]
  /\ UNCHANGED <<store, held, commits>>

\* The caller drops the future before it has returned.
DropFuture(s, i) ==
  /\ i \in 1..Len(futs[s])
  /\ futs' = [futs EXCEPT ![s] = RemoveAt(@, i)]
  /\ calls' = [calls EXCEPT ![s] =
       Append(@, CallEntry(futs[s][i], Dropped,
         IF futs[s][i].pc = "awaiting"
           THEN Append(futs[s][i].done,
                  [op |-> Head(futs[s][i].todo).op, bs |-> Head(futs[s][i].todo).bs,
                   res |-> Dropped])
           ELSE futs[s][i].done))]
  /\ UNCHANGED <<store, held, w, commits>>

Next ==
  \/ \E s \in Slots, p \in Paths : new(s, p) /\ UNCHANGED fw
  \/ \E s \in Slots, p \in Paths, cap \in Capacities : BuildBufWriter(s, p, cap) /\ UNCHANGED fw
  \/ \E s \in Slots : from_buf_writer(s) /\ UNCHANGED fw
  \/ \E s \in Slots : from(s) /\ UNCHANGED fw
  \/ \E s \in Slots : into_inner(s) /\ UNCHANGED fw
  \/ \E s \in Slots : drop_adapter(s) /\ UNCHANGED fw
  \/ \E s \in Slots, bs \in Chunks : write(s, bs) /\ UNCHANGED fw
  \/ \E s \in Slots : complete(s) /\ UNCHANGED fw
  \/ \E s \in Slots, i \in 1..MaxCalls : Poll(s, i) /\ UNCHANGED fw
  \/ \E s \in Slots, i \in 1..MaxCalls, out \in Outcomes : InnerReady(s, i, out) /\ UNCHANGED fw
  \/ \E s \in Slots, i \in 1..MaxCalls : DropFuture(s, i) /\ UNCHANGED fw

Spec == Init /\ [][Next]_vars

\* The caller polls a future it holds.
PollStep == \E s \in Slots, i \in 1..MaxCalls : Poll(s, i) /\ UNCHANGED fw

\* The awaited inner operation completes or fails.
InnerStep ==
  \E s \in Slots, i \in 1..MaxCalls, out \in Outcomes : InnerReady(s, i, out) /\ UNCHANGED fw

\* A caller that awaits every call: no future is dropped.
NextAwaited ==
  \/ \E s \in Slots, p \in Paths : new(s, p) /\ UNCHANGED fw
  \/ \E s \in Slots, p \in Paths, cap \in Capacities : BuildBufWriter(s, p, cap) /\ UNCHANGED fw
  \/ \E s \in Slots : from_buf_writer(s) /\ UNCHANGED fw
  \/ \E s \in Slots : from(s) /\ UNCHANGED fw
  \/ \E s \in Slots : into_inner(s) /\ UNCHANGED fw
  \/ \E s \in Slots : drop_adapter(s) /\ UNCHANGED fw
  \/ \E s \in Slots, bs \in Chunks : write(s, bs) /\ UNCHANGED fw
  \/ \E s \in Slots : complete(s) /\ UNCHANGED fw
  \/ PollStep
  \/ InnerStep

\* Every call is awaited, and the inner operation it awaits eventually
\* completes or fails.
SpecAwaited ==
  Init /\ [][NextAwaited]_vars /\ WF_vars(PollStep) /\ WF_vars(InnerStep)

\* Two adapters built with new, each call awaited until it returns.
NextPair ==
  \/ \E s \in Slots, p \in Paths : new(s, p) /\ UNCHANGED fw
  \/ \E s \in Slots, bs \in Chunks : write(s, bs) /\ UNCHANGED fw
  \/ \E s \in Slots : complete(s) /\ UNCHANGED fw
  \/ \E s \in Slots : Poll(s, 1) /\ UNCHANGED fw
  \/ \E s \in Slots, out \in Outcomes : InnerReady(s, 1, out) /\ UNCHANGED fw

SpecPair == InitPair /\ [][NextPair]_vars

\* Two adapters on one store, the first built by new, the second by wrapping
\* a BufWriter the caller built; every call is awaited.
NextRoutes ==
  \/ \E p \in Paths : new(1, p) /\ UNCHANGED fw
  \/ \E p \in Paths, cap \in Capacities : BuildBufWriter(2, p, cap) /\ UNCHANGED fw
  \/ from_buf_writer(2) /\ UNCHANGED fw
  \/ from(2) /\ UNCHANGED fw
  \/ \E s \in Slots : into_inner(s) /\ UNCHANGED fw
  \/ \E s \in Slots, bs \in Chunks : NumCalls < MaxRouteCalls /\ write(s, bs) /\ UNCHANGED fw
  \/ \E s \in Slots : NumCalls < MaxRouteCalls /\ complete(s) /\ UNCHANGED fw
  \/ \E s \in Slots : Poll(s, 1) /\ UNCHANGED fw
  \/ \E s \in Slots, out \in Outcomes : InnerReady(s, 1, out) /\ UNCHANGED fw

SpecRoutes == InitPair /\ [][NextRoutes]_vars

\* Some call on adapter s did not return success: the format writer's `?`
\* gives up.
FwFailed(s) == \E k \in 1..Len(calls[s]) : calls[s][k].res /= Ok

\* complete has been called on adapter s.
FwClosed(s) ==
  \/ \E k \in 1..Len(calls[s]) : calls[s][k].op = "complete"
  \/ \E i \in 1..Len(futs[s]) : futs[s][i].op = "complete"

\* AsyncArrowWriter::do_write: the next buffered chunk goes to the file
\* writer's write.
FwWrite(s) ==
  /\ fw.todo /= <<>>
  /\ ~FwFailed(s)
  /\ write(s, Head(fw.todo))
  /\ fw' = [fw EXCEPT !.todo = Tail(@)]

\* AsyncArrowWriter::close: after the last chunk, the file writer's complete.
FwClose(s) ==
  /\ fw.todo = <<>>
  /\ ~FwFailed(s)
  /\ ~FwClosed(s)
  /\ complete(s)
  /\ UNCHANGED fw

\* The tests: a writer built with new, driven by the format writer, every
\* call awaited until it returns.
NextRoundTrip ==
  \/ \E s \in Slots, p \in Paths : new(s, p) /\ UNCHANGED fw
  \/ \E s \in Slots : FwWrite(s)
  \/ \E s \in Slots : FwClose(s)
  \/ \E s \in Slots : Poll(s, 1) /\ UNCHANGED fw
  \/ \E s \in Slots, out \in Outcomes : InnerReady(s, 1, out) /\ UNCHANGED fw

SpecRoundTrip == InitRoundTrip /\ [][NextRoundTrip]_vars

(* ------------------------- reading the logs --------------------------- *)

\* The bytes of a sequence of chunks, one after the other.
RECURSIVE Flatten(_)
Flatten(cs) == IF cs = <<>> THEN <<>> ELSE Head(cs) \o Flatten(Tail(cs))

\* The chunks of the first n calls of a log.
ChunksOf(log, n) == [k \in 1..n |-> log[k].bs]

\* The first n calls of the log are writes that returned success.
AllWritesOk(log, n) == \A k \in 1..n : log[k].op = "write" /\ log[k].res = Ok

\* The call returned to its caller (it was not dropped).
HasReturned(e) == e.res.kind /= "Dropped"

\* Some call before the k-th was a write that returned an error.
WriteFailedBefore(log, k) == \E j \in 1..(k - 1) : log[j].op = "write" /\ log[j].res.kind = "Err"

\* Some complete has returned on adapter s.
Completed(s) == \E k \in 1..Len(calls[s]) : calls[s][k].op = "complete" /\ HasReturned(calls[s][k])

(* ------------------------------ claims -------------------------------- *)

\* C1: when every write on an adapter returned success and the complete
\* that follows them returned success, the object at the destination path
\* is the concatenation of the written chunks, in call order.
C1_OrderPreserved ==
  \A s \in Slots : \A k \in 1..Len(calls[s]) :
    (/\ calls[s][k].op = "complete"
     /\ calls[s][k].res = Ok
     /\ AllWritesOk(calls[s], k - 1))
    => /\ w[s].path \in DOMAIN store
       /\ store[w[s].path] = Flatten(ChunksOf(calls[s], k - 1))
       /\ commits[s] = <<[path |-> w[s].path, data |-> Flatten(ChunksOf(calls[s], k - 1))]>>

\* C1 witness: <<1>> then <<2, 3>> written and completed: the object is <<1, 2, 3>>.
C1_Witness ==
  \E s \in Slots :
    /\ Len(calls[s]) = 3
    /\ AllWritesOk(calls[s], 2)
    /\ ChunksOf(calls[s], 2) = << <<1>>, <<2, 3>> >>
    /\ calls[s][3].op = "complete" /\ calls[s][3].res = Ok
    /\ w[s].path \in DOMAIN store
    /\ store[w[s].path] = <<1, 2, 3>>

\* C2: when the format writer has written the chunks of its payload's
\* encoding through the adapter, in order, and complete has returned
\* success, the reader decodes the object at the path to that same payload,
\* schema and rows.
C2_RoundTrip ==
  \A s \in Slots :
    (\E k \in 1..Len(calls[s]) : calls[s][k].op = "complete" /\ calls[s][k].res = Ok)
    => /\ w[s].path \in DOMAIN store
       /\ Decode(store[w[s].path]) = fw.payload

\* C2 witness: a payload of two rows went out in two chunks, complete
\* succeeded and the object decodes to the payload.
C2_Witness ==
  \E s \in Slots :
    /\ Len(calls[s]) = 3
    /\ calls[s][3].op = "complete" /\ calls[s][3].res = Ok
    /\ fw.payload = [schema |-> "array: FixedSizeList(Float32, 2)", rows |-> <<1, 2>>]
    /\ w[s].path = "fixed_size_array"
    /\ Decode(store[w[s].path]) = fw.payload

\* C3: a write that returned has called put exactly once, with its chunk,
\* and returned success exactly when that put did; a failed put comes back
\* as an error wrapping the backend's error.
C3_WriteFailurePropagates ==
  \A s \in Slots :
    /\ \A k \in 1..Len(calls[s]) :
         (calls[s][k].op = "write" /\ HasReturned(calls[s][k]))
         => LET e == calls[s][k]
            IN  /\ Len(e.inner) = 1
                /\ e.inner[1].op = "put"
                /\ e.inner[1].bs = e.bs
                /\ (e.res = Ok) <=> (e.inner[1].res = Ok)
                /\ e.inner[1].res.kind = "Err"
                     => /\ e.res.kind = "Err"
                        /\ e.res.err.cause = e.inner[1].res.err
    /\ \A i \in 1..Len(futs[s]) :
         futs[s][i].op = "write" => futs[s][i].done = <<>> /\ Len(futs[s][i].todo) = 1

\* C3 witness: a write whose put the backend refused has returned an error.
C3_Witness ==
  \E s \in Slots : \E k \in 1..Len(calls[s]) :
    /\ calls[s][k].op = "write"
    /\ calls[s][k].res.kind = "Err"
    /\ calls[s][k].inner[1].res.kind = "Err"

\* C4: a complete that returned has called shutdown exactly once; it
\* returned success only when the shutdown did, and then the object is
\* committed; a failed shutdown comes back as an error wrapping the failure.
C4_CompleteFailurePropagates ==
  \A s \in Slots :
    /\ \A k \in 1..Len(calls[s]) :
         (calls[s][k].op = "complete" /\ HasReturned(calls[s][k]))
         => LET e == calls[s][k]
            IN  /\ Len(e.inner) = 1
                /\ e.inner[1].op = "shutdown"
                /\ e.res = Ok
                     => /\ e.inner[1].res = Ok
                        /\ commits[s] /= <<>>
                        /\ w[s].path \in DOMAIN store
                /\ e.inner[1].res.kind = "Err"
                     => /\ e.res.kind = "Err"
                        /\ e.res.err.cause = e.inner[1].res.err
    /\ \A i \in 1..Len(futs[s]) :
         futs[s][i].op = "complete" => futs[s][i].done = <<>> /\ Len(futs[s][i].todo) = 1

\* C4 witness: a complete whose shutdown failed has returned an error and
\* nothing was committed.
C4_Witness ==
  \E s \in Slots : \E k \in 1..Len(calls[s]) :
    /\ calls[s][k].op = "complete"
    /\ calls[s][k].res.kind = "Err"
    /\ calls[s][k].inner[1].res.kind = "Err"
    /\ commits[s] = <<>>

\* C5: every error a write or a complete returns is of the one kind
\* External and carries, unchanged, the error the inner call failed with;
\* and every inner failure comes back so.
C5_UniformErrorMapping ==
  \A s \in Slots : \A k \in 1..Len(calls[s]) :
    LET e == calls[s][k]
    IN  /\ e.res.kind \in {"Ok", "Err", "Panic", "Dropped"}
        /\ e.res.kind = "Err"
             => /\ e.res.err.variant = "External"
                /\ e.inner /= <<>>
                /\ e.inner[Len(e.inner)].res.kind = "Err"
                /\ e.res.err.cause = e.inner[Len(e.inner)].res.err
                /\ e.res.err.cause \in BackendErrors
        /\ (e.inner /= <<>> /\ e.inner[Len(e.inner)].res.kind = "Err")
             => e.res = [kind |-> "Err",
                         err |-> [variant |-> "External",
                                  cause |-> e.inner[Len(e.inner)].res.err]]

\* C5 witness: a write failed with one backend error and a complete with
\* another; both came back as External with their own cause.
C5_Witness ==
  \E s \in Slots : \E j, k \in 1..Len(calls[s]) :
    /\ calls[s][j].op = "write"
    /\ calls[s][j].res.kind = "Err"
    /\ calls[s][j].res.err = [variant |-> "External", cause |-> "Connection"]
    /\ calls[s][k].op = "complete"
    /\ calls[s][k].res.kind = "Err"
    /\ calls[s][k].res.err = [variant |-> "External", cause |-> "Timeout"]

\* C6: once a complete has returned on an adapter, its inner writer is and
\* stays closed: no later step commits or changes an object, and no write
\* returns success.
C6_NoWriteAfterComplete ==
  [][\A s \in Slots :
       Completed(s)
       => /\ w[s].state = "Closed"
          /\ w'[s].state = "Closed"
          /\ store' = store
          /\ commits' = commits
          /\ \A k \in (Len(calls[s]) + 1)..Len(calls'[s]) :
               ~(calls'[s][k].op = "write" /\ calls'[s][k].res = Ok)]_vars

\* C6 witness: a write issued after a successful complete has returned
\* without success, and the committed object is the one complete committed.
C6_Witness ==
  \E s \in Slots : \E j, k \in 1..Len(calls[s]) :
    /\ j < k
    /\ calls[s][j].op = "complete" /\ calls[s][j].res = Ok
    /\ calls[s][k].op = "write" /\ HasReturned(calls[s][k]) /\ calls[s][k].res /= Ok
    /\ Len(commits[s]) = 1
    /\ store[w[s].path] = commits[s][1].data

\* C7: an adapter has at most one write or complete in flight, and only
\* while it is held as an adapter (it cannot be unwrapped meanwhile).
C7_OneInFlight ==
  \A s \in Slots :
    /\ Len(futs[s]) <= 1
    /\ futs[s] /= <<>> => held[s] = "adapter"

\* C7 witness: an operation is suspended on an adapter that has already
\* finished an earlier call.
C7_Witness ==
  \E s \in Slots :
    /\ Len(futs[s]) = 1
    /\ futs[s][1].pc = "awaiting"
    /\ calls[s] /= <<>>

\* C8: a step that builds or unwraps an adapter leaves the store and the
\* logs of calls and commits as they are, and a writer that no call was
\* made on has committed nothing.
C8_ConstructionNoIo ==
  /\ [][held' /= held => (store' = store /\ commits' = commits /\ calls' = calls /\ futs' = futs)]_vars
  /\ [](\A s \in Slots : (calls[s] = <<>> /\ futs[s] = <<>>) => commits[s] = <<>>)

\* C8 witness: an adapter built with new and unwrapped at once: the inner
\* writer is loose and there is no object at its path.
C8_Witness ==
  \E s \in Slots :
    /\ held[s] = "loose"
    /\ w[s].capacity = DefaultCapacity
    /\ calls[s] = <<>>
    /\ w[s].path \notin DOMAIN store

\* C9: a complete that returns after some write has failed has still called
\* shutdown, once, and its result is the (mapped) result shutdown gives in
\* the inner writer's state at that point.
C9_FinalizeAfterFailure ==
  [][\A s \in Slots : \A k \in (Len(calls[s]) + 1)..Len(calls'[s]) :
       (/\ calls'[s][k].op = "complete"
        /\ HasReturned(calls'[s][k])
        /\ WriteFailedBefore(calls'[s], k))
       => \E out \in Outcomes :
            LET r == BufShutdown(w[s], out)
            IN  /\ calls'[s][k].inner = <<[op |-> "shutdown", bs |-> <<>>, res |-> r.res]>>
                /\ w'[s] = r.w
                /\ calls'[s][k].res =
                     IF r.res.kind = "Err"
                       THEN [kind |-> "Err",
                             err |-> [variant |-> "External", cause |-> r.res.err]]
                       ELSE r.res]_vars

\* C9 witness: a write failed, and the complete after it returned success
\* because the inner writer's shutdown succeeded.
C9_Witness ==
  \E s \in Slots : \E k \in 1..Len(calls[s]) :
    /\ calls[s][k].op = "complete"
    /\ calls[s][k].res = Ok
    /\ WriteFailedBefore(calls[s], k)

\* The first k calls of the two logs are the same calls with the same results.
SameCalls(s, t, k) ==
  /\ k <= Len(calls[s])
  /\ k <= Len(calls[t])
  /\ \A j \in 1..k :
       /\ calls[s][j].op = calls[t][j].op
       /\ calls[s][j].bs = calls[t][j].bs
       /\ calls[s][j].res = calls[t][j].res

\* C10: two adapters built on the same store and path that were given the
\* same chunks, with the same answers from the backend, and whose complete
\* returned success have committed the same object: same path, same bytes.
C10_ConstructionDeterminism ==
  \A s, t \in Slots : \A k \in 1..Len(calls[s]) :
    (/\ s /= t
     /\ w[s].path = w[t].path
     /\ SameCalls(s, t, k)
     /\ calls[s][k].op = "complete" /\ calls[s][k].res = Ok
     /\ \A j \in 1..(k - 1) : calls[s][j].op = "write")
    => /\ Len(commits[s]) = 1
       /\ commits[s] = commits[t]

\* C10 witness: two adapters on path "test" each wrote <<2, 3>> and
\* completed; both committed <<2, 3>> there.
C10_Witness ==
  /\ \A s \in Slots :
       /\ w[s].path = "test"
       /\ Len(calls[s]) = 2
       /\ calls[s][1].op = "write" /\ calls[s][1].bs = <<2, 3>> /\ calls[s][1].res = Ok
       /\ calls[s][2].op = "complete" /\ calls[s][2].res = Ok
       /\ commits[s] = <<[path |-> "test", data |-> <<2, 3>>]>>
  /\ Cardinality(Slots) = 2

\* The inner calls of a log that came back from the inner writer, in order.
RECURSIVE InnerCalls(_)
InnerCalls(log) ==
  IF log = <<>> THEN <<>>
  ELSE SelectSeq(Head(log).inner, HasReturned) \o InnerCalls(Tail(log))

\* The inner writer after the inner calls cs, each answered as recorded.
RECURSIVE Replay(_, _)
Replay(bw, cs) ==
  IF cs = <<>> THEN bw
  ELSE LET c == Head(cs)
           out == IF c.res.kind = "Err" THEN c.res.err ELSE "ok"
       IN  Replay(IF c.op = "put" THEN BufPut(bw, c.bs, out).w ELSE BufShutdown(bw, out).w,
                  Tail(cs))

\* C11: wrapping and unwrapping hand the inner writer over as it is: the
\* step changes neither the writer nor the store, and an unwrapped writer
\* is in the state the forwarded puts and shutdowns left a writer of its
\* path and capacity in.
C11_IntoInnerReturnsWriter ==
  /\ [][\A s \in Slots :
          (held[s] /= "none" /\ held'[s] /= held[s])
          => (w'[s] = w[s] /\ store' = store /\ commits' = commits)]_vars
  /\ [](\A s \in Slots :
          held[s] = "loose"
          => w[s] = Replay(BufWriterNew(w[s].path, w[s].capacity), InnerCalls(calls[s])))

\* C11 witness: a writer unwrapped after two successful writes holds both
\* chunks and has committed nothing.
C11_Witness ==
  \E s \in Slots :
    /\ held[s] = "loose"
    /\ Len(calls[s]) = 2
    /\ AllWritesOk(calls[s], 2)
    /\ w[s].buf = calls[s][1].bs \o calls[s][2].bs
    /\ w[s].state /= "Closed"
    /\ commits[s] = <<>>

\* The inner call a call of the adapter stands for.
Forwarded(e) == [op |-> IF e.op = "write" THEN "put" ELSE "shutdown", bs |-> e.bs]

\* The inner calls of entry e are exactly the one call it stands for.
ForwardsOnce(e) ==
  /\ Len(e.inner) = 1
  /\ e.inner[1].op = Forwarded(e).op
  /\ e.inner[1].bs = Forwarded(e).bs

\* The chunks of the puts of cs that the inner writer accepted, in order.
RECURSIVE AcceptedBytes(_)
AcceptedBytes(cs) ==
  IF cs = <<>> THEN <<>>
  ELSE (IF Head(cs).op = "put" /\ Head(cs).res = Ok THEN Head(cs).bs ELSE <<>>)
         \o AcceptedBytes(Tail(cs))

\* C12 as stated: every write call made on the adapter has issued exactly
\* one put with its bytes, and every complete call exactly one shutdown.
C12_EveryCallForwarded ==
  \A s \in Slots : \A k \in 1..Len(calls[s]) : ForwardsOnce(calls[s][k])

\* C12, amended: every write whose future was polled has issued exactly one
\* put with exactly its bytes, every polled complete exactly one shutdown
\* and no put, in call order; a future dropped before its first poll has
\* issued nothing; the inner writer holds the accepted chunks in call order.
C12_ForwardingTrace ==
  \A s \in Slots :
    /\ \A k \in 1..Len(calls[s]) :
         LET e == calls[s][k]
         IN  /\ HasReturned(e) => ForwardsOnce(e)
             /\ e.inner /= <<>> => ForwardsOnce(e)
    /\ \A i \in 1..Len(futs[s]) :
         /\ futs[s][i].done = <<>>
         /\ futs[s][i].todo = <<Forwarded(futs[s][i])>>
    /\ w[s].buf = AcceptedBytes(InnerCalls(calls[s]))

\* C12 witness: write <<1>>, write <<2, 3>> and complete have returned; the
\* inner writer received put <<1>>, put <<2, 3>>, shutdown, in that order.
C12_Witness ==
  \E s \in Slots :
    /\ Len(calls[s]) = 3
    /\ \A k \in 1..3 : HasReturned(calls[s][k])
    /\ LET cs == InnerCalls(calls[s])
       IN  /\ Len(cs) = 3
           /\ cs[1].op = "put" /\ cs[1].bs = <<1>>
           /\ cs[2].op = "put" /\ cs[2].bs = <<2, 3>>
           /\ cs[3].op = "shutdown"

\* What the inner writer bw answers to the inner call of entry e when the
\* backend answers out.
InnerAnswer(bw, e, out) ==
  IF e.op = "write" THEN BufPut(bw, e.bs, out) ELSE BufShutdown(bw, out)

\* The result as ParquetError::External would carry it.
Wrapped(r) ==
  IF r.kind = "Err"
    THEN [kind |-> "Err", err |-> [variant |-> "External", cause |-> r.err]]
    ELSE r

\* C13: a write or a complete that returns after a complete has already
\* returned was still forwarded, once, to put or shutdown, and its outcome
\* is the one the inner writer gives in its state at that point.
C13_MisuseDelegated ==
  [][\A s \in Slots : \A k \in (Len(calls[s]) + 1)..Len(calls'[s]) :
       (Completed(s) /\ HasReturned(calls'[s][k]))
       => \E out \in Outcomes :
            LET e == calls'[s][k]
                r == InnerAnswer(w[s], e, out)
            IN  /\ e.inner = <<[op |-> Forwarded(e).op, bs |-> e.bs, res |-> r.res]>>
                /\ w'[s] = r.w
                /\ e.res = Wrapped(r.res)]_vars

\* C13 witness: after a successful complete, a second complete and then a
\* write were each forwarded and came back with the inner writer's answer.
C13_Witness ==
  \E s \in Slots :
    /\ Len(calls[s]) = 3
    /\ calls[s][1].op = "complete" /\ calls[s][1].res = Ok
    /\ calls[s][2].op = "complete" /\ HasReturned(calls[s][2])
    /\ calls[s][2].inner = <<[op |-> "shutdown", bs |-> <<>>, res |-> calls[s][2].res]>>
    /\ calls[s][3].op = "write" /\ HasReturned(calls[s][3])
    /\ calls[s][3].inner = <<[op |-> "put", bs |-> calls[s][3].bs, res |-> calls[s][3].res]>>

\* The paths whose object differs between the state and its successor.
Touched == {q \in DOMAIN store \cup DOMAIN store' :
              \/ q \notin DOMAIN store
              \/ q \notin DOMAIN store'
              \/ store[q] /= store'[q]}

\* C14: once a writer is built its path and capacity never change; a step
\* that finishes a write changes no object and commits nothing; and any
\* object a step changes is at the destination path of an adapter whose
\* complete is returning in that step.
C14_OnlyDestinationTouched ==
  [][/\ \A s \in Slots :
          /\ held[s] /= "none"
               => (w'[s].path = w[s].path /\ w'[s].capacity = w[s].capacity)
          /\ \A k \in (Len(calls[s]) + 1)..Len(calls'[s]) :
               calls'[s][k].op = "write"
               => (store' = store /\ commits' = commits /\ held' = held)
     /\ \A q \in Touched :
          \E s \in Slots :
            /\ q = w[s].path
            /\ Len(calls'[s]) = Len(calls[s]) + 1
            /\ calls'[s][Len(calls'[s])].op = "complete"]_vars

\* C14 witness: writes and a complete have committed the adapter's object,
\* and the object that was at the other path before is as it was.
C14_Witness ==
  \E s \in Slots : \E q \in DOMAIN store :
    /\ q /= w[s].path
    /\ store[q] = Preexisting
    /\ Len(calls[s]) = 3
    /\ AllWritesOk(calls[s], 2)
    /\ calls[s][3].op = "complete" /\ calls[s][3].res = Ok
    /\ store[w[s].path] = w[s].buf
    /\ DOMAIN store = {q, w[s].path}

\* A call is in flight on some adapter.
InFlight == \E s \in Slots : futs[s] /= <<>>

\* No call is in flight, and the last call of every adapter has returned.
AllReturned ==
  \A s \in Slots :
    /\ futs[s] = <<>>
    /\ calls[s] /= <<>> => HasReturned(calls[s][Len(calls[s])])

\* C15: with every call awaited and the inner operation eventually
\* finishing, a call in flight eventually returns; its future has the one
\* await of put or shutdown, and the step in which that await finishes is
\* the step in which the call returns.
C15_ReturnsWithInner ==
  /\ InFlight ~> AllReturned
  /\ [](\A s \in Slots : \A i \in 1..Len(futs[s]) :
          /\ futs[s][i].pc \in {"created", "awaiting"}
          /\ futs[s][i].done = <<>>
          /\ Len(futs[s][i].todo) = 1)
  /\ [][\A s \in Slots :
          (futs[s] /= <<>> /\ futs[s][1].pc = "awaiting" /\ futs'[s] /= futs[s])
          => /\ futs'[s] = <<>>
             /\ Len(calls'[s]) = Len(calls[s]) + 1
             /\ HasReturned(calls'[s][Len(calls'[s])])]_vars

\* C15 witness: a write and a complete were each suspended on their inner
\* operation and have returned.
C15_Witness ==
  \E s \in Slots :
    /\ futs[s] = <<>>
    /\ Len(calls[s]) = 2
    /\ calls[s][1].op = "write" /\ calls[s][1].res = Ok /\ Len(calls[s][1].inner) = 1
    /\ calls[s][2].op = "complete" /\ calls[s][2].res = Ok /\ Len(calls[s][2].inner) = 1

\* C16: the step that drops a write or complete in flight leaves the inner
\* writer, the store and the commits as they are and records no inner call
\* beyond the one already awaited; the adapter is no longer borrowed.
C16_DropDoesNothing ==
  [][\A s \in Slots : \A k \in (Len(calls[s]) + 1)..Len(calls'[s]) :
       calls'[s][k].res = Dropped
       => /\ w' = w
          /\ store' = store
          /\ commits' = commits
          /\ held' = held
          /\ futs'[s] = <<>>
          /\ futs[s] /= <<>>
          /\ calls'[s][k].inner =
               IF futs[s][1].pc = "awaiting"
                 THEN <<[op |-> Forwarded(futs[s][1]).op, bs |-> futs[s][1].bs, res |-> Dropped]>>
                 ELSE <<>>
          /\ InnerCalls(calls'[s]) = InnerCalls(calls[s])]_vars

\* C16 witness: a write was dropped while suspended on its put; the next
\* write and the complete succeeded and committed that write's chunk alone.
C16_Witness ==
  \E s \in Slots :
    /\ Len(calls[s]) = 3
    /\ calls[s][1].op = "write" /\ calls[s][1].res = Dropped /\ Len(calls[s][1].inner) = 1
    /\ calls[s][2].op = "write" /\ calls[s][2].res = Ok
    /\ calls[s][3].op = "complete" /\ calls[s][3].res = Ok
    /\ store[w[s].path] = calls[s][2].bs

\* Some inner call of the sequence cs is a shutdown.
HasShutdown(cs) == \E j \in 1..Len(cs) : cs[j].op = "shutdown"

\* A complete on adapter s has been polled: its shutdown was issued.
CompletePolled(s) ==
  \/ \E k \in 1..Len(calls[s]) : calls[s][k].op = "complete" /\ calls[s][k].inner /= <<>>
  \/ \E i \in 1..Len(futs[s]) : futs[s][i].op = "complete" /\ futs[s][i].pc = "awaiting"

\* C17: every shutdown the inner writer received was issued by a complete;
\* as long as no complete has been polled, whatever was built, written,
\* dropped or unwrapped, the inner writer is not shut down and the adapter
\* has committed nothing.
C17_ShutdownOnlyFromComplete ==
  \A s \in Slots :
    /\ \A k \in 1..Len(calls[s]) :
         HasShutdown(calls[s][k].inner) => calls[s][k].op = "complete"
    /\ \A i \in 1..Len(futs[s]) :
         (HasShutdown(futs[s][i].todo) \/ HasShutdown(futs[s][i].done))
         => futs[s][i].op = "complete"
    /\ ~CompletePolled(s) => (commits[s] = <<>> /\ w[s].state /= "Closed")

\* C17 witness: a write succeeded, another was dropped, the adapter itself
\* was dropped, and no complete was ever called: nothing is committed.
C17_Witness ==
  \E s \in Slots :
    /\ held[s] = "dropped"
    /\ Len(calls[s]) = 2
    /\ calls[s][1].op = "write" /\ calls[s][1].res = Ok
    /\ calls[s][2].op = "write" /\ calls[s][2].res = Dropped
    /\ w[s].state = "Write"
    /\ commits[s] = <<>>
    /\ w[s].path \notin DOMAIN store

\* C18: an adapter built by new(store, path) and one built by
\* from_buf_writer or from over a default-configured BufWriter for the same
\* path, taken through the same write, complete and into_inner calls with
\* the same results, hold the same inner writer and have committed the
\* same; and from does in every step what from_buf_writer does.
C18_RoutesAgree ==
  /\ []((/\ held[1] = held[2]
         /\ held[1] \in {"adapter", "loose"}
         /\ w[1].path = w[2].path
         /\ w[2].capacity = DefaultCapacity
         /\ calls[1] = calls[2]
         /\ futs[1] = futs[2])
        => (w[1] = w[2] /\ commits[1] = commits[2]))
  /\ [][\A s \in Slots : from(s) <=> from_buf_writer(s)]_vars

\* C18 witness: one adapter from new, one wrapped around a default BufWriter,
\* both on "test": each wrote <<2, 3>> (over the capacity), completed and was
\* unwrapped; both writers are closed and both committed <<2, 3>>.
C18_Witness ==
  /\ DOMAIN held = {1, 2}
  /\ \A s \in {1, 2} :
       /\ held[s] = "loose"
       /\ w[s] = [BufWriterNew("test", DefaultCapacity) EXCEPT !.state = "Closed", !.buf = <<2, 3>>]
       /\ Len(calls[s]) = 2
       /\ calls[s][1].op = "write" /\ calls[s][1].bs = <<2, 3>> /\ calls[s][1].res = Ok
       /\ calls[s][2].op = "complete" /\ calls[s][2].res = Ok
       /\ commits[s] = <<[path |-> "test", data |-> <<2, 3>>]>>

====
